---- MODULE Spec2Model ----
(***************************************************************************)
(* b2h5py: Blosc2 optimized slicing for h5py datasets.                     *)
(*                                                                         *)
(* The model follows one h5py.Dataset object through reads made with the   *)
(* patched __getitem__ (B2Dataset___getitem__ -> opt_slice_read ->         *)
(* opt_selection_read), one statement group per step.  The collaborators   *)
(* that are not part of the package (h5py's selection normalisation and    *)
(* chunk iterator, numpy's product and assignment, the Blosc2 container    *)
(* reader) are modelled by what they do at the call sites.                 *)
(* The patching of the h5py.Dataset class is followed as well: the calls   *)
(* made in one thread, and the statements of several threads interleaved. *)
(***************************************************************************)
EXTENDS Integers, Sequences, FiniteSets, TLC

VARIABLES
    dataset,          \* the descriptor of the h5py.Dataset object read from
    host,             \* platform.system() and the installed h5py of the process
    environ,          \* os.environ's BLOSC2_FILTER entry
    ok_cache,         \* the cached _blosc2_opt_slicing_ok in the instance dict
    pc,               \* position of the read in flight
    args,             \* __getitem__'s args, tuple-normalised
    new_dtype,        \* __getitem__'s new_dtype
    selection,        \* the h5py selection made by h5sel.select
    slice_arr,        \* the output buffer of opt_selection_read
    writes,           \* how often each position of slice_arr was assigned
    chunk_index,      \* ChunkIterator._chunk_index
    chunk_slice,      \* the current item of dataset.iter_chunks
    chunk_slice_arr,  \* what _read_chunk_slice returned for the current item
    raised,           \* the exception raised inside opt_slice_read
    result,           \* what __getitem__ returned or raised
    trace,            \* observations of the read in flight
    getitem,          \* the function h5py.Dataset.__getitem__ is
    wrapped,          \* the __wrapped__ attribute of each function
    marker,           \* hasattr(h5py.Dataset, '_blosc2_opt_slicing_ok')
    cmgrs,            \* the patching_dataset_class() contexts entered
    patch_trace,      \* observations of the calls that patch the class
    threads           \* the threads patching the class: position and locals

readvars == <<dataset, host, environ, ok_cache, pc, args, new_dtype,
              selection, slice_arr, writes, chunk_index, chunk_slice,
              chunk_slice_arr, raised, result, trace>>

patchvars == <<getitem, wrapped, marker, cmgrs, patch_trace, threads>>

vars == <<readvars, patchvars>>

-----------------------------------------------------------------------------
(* Bounds of the model.                                                    *)

\* How far past the dataset extent (and below zero) an index or a slice
\* bound of a request may lie.
MaxOver == 1

\* How many functions other code makes to wrap h5py.Dataset.__getitem__.
MaxForeign == 2

\* How deep patching_dataset_class() contexts are nested.
MaxNest == 2

\* How many threads patch and unpatch the class next to one another.
MaxThreads == 2

-----------------------------------------------------------------------------
(* Sequences of naturals as shapes and coordinates.                        *)

Rank(shape) == Len(shape)

RECURSIVE Prod(_)
Prod(s) == IF s = <<>> THEN 1 ELSE Head(s) * Prod(Tail(s))

Max2(a, b) == IF a > b THEN a ELSE b
Min2(a, b) == IF a < b THEN a ELSE b

RECURSIVE SeqMax(_)
SeqMax(s) == IF s = <<>> THEN 0 ELSE Max2(Head(s), SeqMax(Tail(s)))

\* All coordinates of an array of the given shape.
Box(shape) ==
    {p \in [1..Len(shape) -> 0..SeqMax(shape)] :
        \A i \in 1..Len(shape) : p[i] < shape[i]}

\* Row-major (C order) linear index of coordinate p in an array of a shape.
RECURSIVE Ravel(_, _)
Ravel(p, shape) ==
    IF p = <<>> THEN 0
    ELSE Head(p) * Prod(Tail(shape)) + Ravel(Tail(p), Tail(shape))

\* The coordinate with row-major linear index k.
RECURSIVE Unravel(_, _)
Unravel(k, shape) ==
    IF shape = <<>> THEN <<>>
    ELSE <<k \div Prod(Tail(shape))>>
         \o Unravel(k % Prod(Tail(shape)), Tail(shape))

\* Python's comparison of two tuples of integers: a > b, lexicographic.
RECURSIVE TupleGreater(_, _)
TupleGreater(a, b) ==
    IF a = <<>> THEN FALSE
    ELSE IF b = <<>> THEN TRUE
    ELSE IF Head(a) # Head(b) THEN Head(a) > Head(b)
    ELSE TupleGreater(Tail(a), Tail(b))

-----------------------------------------------------------------------------
(* 64-bit integers as eight base-256 limbs, least significant first:       *)
(* numpy.prod multiplies in int64 and wraps.                               *)

LimbCount == 8
LimbBase == 256

ToLimbs(n) == [i \in 1..LimbCount |->
                 IF i = 1 THEN n % LimbBase
                 ELSE IF i = 2 THEN (n \div LimbBase) % LimbBase
                 ELSE IF i = 3 THEN (n \div (LimbBase * LimbBase)) % LimbBase
                 ELSE 0]

\* The limbs above the third are zero: the value is below 2^24.
IsSmall(x) == \A i \in 4..LimbCount : x[i] = 0

ToNat(x) == x[1] + LimbBase * x[2] + LimbBase * LimbBase * x[3]

\* Column k of the schoolbook product: the sum of a[i] * b[j], i + j = k + 1.
RECURSIVE ColumnSum(_, _, _, _)
ColumnSum(a, b, k, i) ==
    IF i > k THEN 0 ELSE a[i] * b[k + 1 - i] + ColumnSum(a, b, k, i + 1)

\* The limbs k.. of a * b modulo 2^64, given the carry into limb k.
RECURSIVE MulLimbs(_, _, _, _)
MulLimbs(a, b, k, carry) ==
    IF k > LimbCount THEN <<>>
    ELSE LET t == ColumnSum(a, b, k, 1) + carry
         IN  <<t % LimbBase>> \o MulLimbs(a, b, k + 1, t \div LimbBase)

MulWrap(a, b) == MulLimbs(a, b, 1, 0)

\* numpy.prod of a tuple of integers: the wrapping product, 1 for ().
RECURSIVE numpy_prod(_)
numpy_prod(t) ==
    IF t = <<>> THEN ToLimbs(1) ELSE MulWrap(Head(t), numpy_prod(Tail(t)))

-----------------------------------------------------------------------------
(* The dataset, the host and the environment.                              *)

\* HDF5 filter identifier of Blosc2, as h5py keys it in Dataset._filters.
Blosc2FilterId == "32026"

\* Geometries (shape, chunk shape) of the chunked datasets read from: one
\* dimension with a partial last chunk, two dimensions with a partial last
\* chunk on both axes, and chunks on the inner dimension of three.
Geometries ==
    { <<(<<5>>), (<<2>>)>>,
      <<(<<3, 3>>), (<<2, 2>>)>>,
      <<(<<2, 2, 2>>), (<<2, 2, 1>>)>> }

\* The geometry of the datasets on which the dataset properties vary.
PlainShape == <<3>>
PlainChunks == <<2>>

FilterSets == { {}, {Blosc2FilterId}, {"shuffle", Blosc2FilterId},
                {"gzip"}, {"32001"} }

\* Datasets HDF5 can hold: only a simple extent can be chunked, only a
\* chunked layout can have filters.
Datasets ==
    { [extent_type |-> "SIMPLE", shape |-> g[1], chunked |-> TRUE,
       chunks |-> g[2], filters |-> {Blosc2FilterId}, isnative |-> TRUE,
       mode |-> "r"] : g \in Geometries }
    \cup
    { [extent_type |-> "SIMPLE", shape |-> PlainShape, chunked |-> TRUE,
       chunks |-> PlainChunks, filters |-> f, isnative |-> n, mode |-> m]
        : f \in FilterSets, n \in BOOLEAN, m \in {"r", "r+"} }
    \cup
    { [extent_type |-> "SIMPLE", shape |-> PlainShape, chunked |-> FALSE,
       chunks |-> <<>>, filters |-> {}, isnative |-> n, mode |-> m]
        : n \in BOOLEAN, m \in {"r", "r+"} }
    \cup
    { [extent_type |-> e, shape |-> <<>>, chunked |-> FALSE,
       chunks |-> <<>>, filters |-> {}, isnative |-> n, mode |-> "r"]
        : e \in {"SCALAR", "NULL"}, n \in BOOLEAN }

Hosts ==
    [system : {"Linux", "Windows"}, chunk_iter_fixed : BOOLEAN]

\* str.lower() on the names platform.system() returns.
Lower(s) ==
    CASE s = "Windows" -> "windows"
      [] s = "Linux" -> "linux"
      [] OTHER -> s

\* Values of BLOSC2_FILTER, as sequences of characters; unset is absent.
EnvStrings ==
    { <<"0">>, <<"1">>, <<"-", "2">>, <<"o", "n">> }

Environs ==
    {[present |-> FALSE, value |-> <<>>]}
    \cup {[present |-> TRUE, value |-> s] : s \in EnvStrings}

Digits == <<"0", "1", "2", "3", "4", "5", "6", "7", "8", "9">>
IsDigit(c) == \E i \in 1..Len(Digits) : Digits[i] = c
DigitValue(c) == (CHOOSE i \in 1..Len(Digits) : Digits[i] = c) - 1

RECURSIVE StripLeft(_)
StripLeft(s) ==
    IF s # <<>> /\ Head(s) = " " THEN StripLeft(Tail(s)) ELSE s

RECURSIVE StripRight(_)
StripRight(s) ==
    IF s # <<>> /\ s[Len(s)] = " "
    THEN StripRight(SubSeq(s, 1, Len(s) - 1)) ELSE s

RECURSIVE DigitsValue(_, _)
DigitsValue(s, acc) ==
    IF s = <<>> THEN acc
    ELSE DigitsValue(Tail(s), 10 * acc + DigitValue(Head(s)))

\* Python's int(s, 10): surrounding blanks, an optional sign, then digits;
\* anything else raises ValueError.
int10(s) ==
    LET t == StripRight(StripLeft(s))
        signed == t # <<>> /\ Head(t) \in {"-", "+"}
        d == IF signed THEN Tail(t) ELSE t
    IN  IF d = <<>> \/ \E i \in 1..Len(d) : ~IsDigit(d[i])
        THEN [ok |-> FALSE, value |-> 0]
        ELSE [ok |-> TRUE,
              value |-> IF signed /\ Head(t) = "-"
                        THEN 0 - DigitsValue(d, 0) ELSE DigitsValue(d, 0)]

\* os.environ.get('BLOSC2_FILTER', '0')
environ_get(env) == IF env.present THEN env.value ELSE <<"0">>

\* opt_slicing_enabled that never looks at the environment.
opt_slicing_enabled_always(env) == TRUE

opt_slicing_enabled(env) ==
    LET parsed == int10(environ_get(env))
        force_filter == IF parsed.ok THEN parsed.value ELSE 0
    IN  force_filter = 0

\* opt_slicing_dataset_ok without the test of the byte order.
opt_slicing_dataset_ok_any_order(ds, h) ==
    /\ ds.chunked
    /\ Blosc2FilterId \in ds.filters
    /\ (ds.mode = "r" \/ Lower(h.system) # "windows")

opt_slicing_dataset_ok(ds, h) ==
    /\ ds.chunked
    /\ Blosc2FilterId \in ds.filters
    /\ ds.isnative
    /\ (ds.mode = "r" \/ Lower(h.system) # "windows")

\* The body of the cached property B2Dataset__blosc2_opt_slicing_ok.
B2Dataset__blosc2_opt_slicing_ok(ds, h) ==
    /\ ds.extent_type = "SIMPLE"
    /\ opt_slicing_dataset_ok(ds, h)

\* Reading the property through h5py's cached_property: the value stored in
\* the instance dictionary if there is one, else a fresh evaluation.
cached_property_get(cache, ds, h) ==
    IF cache # <<>> THEN cache[1] ELSE B2Dataset__blosc2_opt_slicing_ok(ds, h)

\* Whether dataset._blosc2_opt_slicing_ok can be looked up: the instance
\* dictionary holds a value, or the class (m: the property is on it) has
\* the property.
has_blosc2_opt_slicing_ok(cache, m) == cache # <<>> \/ m

-----------------------------------------------------------------------------
(* Requests: the args of __getitem__.  An item is an integer index, a      *)
(* slice (a bound of <<>> is None, the step is a 64-bit integer) or a list *)
(* of indices; the list is [0, L - 1] on an axis of length L.             *)

IntItem(i) == [kind |-> "int", lo |-> <<i>>, hi |-> <<>>, step |-> ToLimbs(1)]
SliceItem(lo, hi, st) == [kind |-> "slice", lo |-> lo, hi |-> hi, step |-> st]
ListItem == [kind |-> "list", lo |-> <<>>, hi |-> <<>>, step |-> ToLimbs(1)]

\* Two steps above 1 whose product is 2^64 + 1: 274177 and 67280421310721.
StepF6a == <<1, 47, 4, 0, 0, 0, 0, 0>>
StepF6b == <<1, 209, 156, 241, 48, 61, 0, 0>>

OtherSteps == {ToLimbs(0), ToLimbs(2), StepF6a, StepF6b}

\* Items for an axis of length L.  Rank 1 takes every bound from MaxOver
\* below zero to MaxOver past the extent, and None; higher ranks take the
\* bounds from 0 on, rank 3 only the slices of the axis itself.
AxisItems(L, rank) ==
    LET bounds == IF rank = 1
                  THEN {<<>>} \cup {<<n>> : n \in (0 - MaxOver)..(L + MaxOver)}
                  ELSE IF rank = 2
                  THEN {<<n>> : n \in 0..(L + MaxOver)}
                  ELSE {<<n>> : n \in 0..L}
        ints == IF rank = 1 THEN (0 - L - MaxOver)..(L - 1 + MaxOver)
                ELSE IF rank = 2 THEN 0..(L - 1 + MaxOver)
                ELSE 0..(L - 1)
    IN  {IntItem(i) : i \in ints}
        \cup {SliceItem(lo, hi, ToLimbs(1)) : lo \in bounds, hi \in bounds}
        \cup (IF rank = 1
              THEN {SliceItem(lo, hi, ToLimbs(2)) : lo \in bounds, hi \in bounds}
              ELSE {})
        \cup (IF rank <= 2
              THEN {SliceItem(<<>>, <<>>, st) : st \in OtherSteps} \cup {ListItem}
              ELSE {})

\* The tuples of at most rank items, one per leading axis.
RECURSIVE ArgTuples(_, _, _)
ArgTuples(shape, rank, i) ==
    IF i > Len(shape) THEN {<<>>}
    ELSE {<<>>} \cup
         {<<a>> \o rest : a \in AxisItems(shape[i], rank),
                          rest \in ArgTuples(shape, rank, i + 1)}

Requests(ds) ==
    IF ds.extent_type = "SIMPLE"
    THEN {r \in ArgTuples(ds.shape, Len(ds.shape), 1) :
            Len(ds.shape) < 3 \/ Len(r) \in {0, Len(ds.shape)}}
    ELSE {<<>>}

\* A few items per axis: an index inside and one outside, the whole axis,
\* a slice crossing a chunk boundary and running past the end, an empty
\* slice, the other steps and a list.
FewAxisItems(L) ==
    {IntItem(0), IntItem(L), ListItem,
     SliceItem(<<>>, <<>>, ToLimbs(1)),
     SliceItem(<<1>>, <<L + MaxOver>>, ToLimbs(1)),
     SliceItem(<<L>>, <<L>>, ToLimbs(1))}
    \cup {SliceItem(<<>>, <<>>, st) : st \in OtherSteps}

RECURSIVE FewArgTuples(_, _)
FewArgTuples(shape, i) ==
    IF i > Len(shape) THEN {<<>>}
    ELSE {<<>>} \cup
         {<<a>> \o rest : a \in FewAxisItems(shape[i]),
                          rest \in FewArgTuples(shape, i + 1)}

FewRequests(ds) ==
    IF ds.extent_type = "SIMPLE" THEN FewArgTuples(ds.shape, 1) ELSE {<<>>}

-----------------------------------------------------------------------------
(* h5py's selection normalisation, h5sel.select(shape, args).              *)

\* One bound of slice.indices(L) for a positive step.
ClipBound(b, L, default) ==
    IF b = <<>> THEN default
    ELSE IF b[1] < 0 THEN Max2(b[1] + L, 0)
    ELSE Min2(b[1], L)

\* Python's n // step for n >= -1 and a step of at least 1.
FloorDiv(n, st) ==
    IF n < 0 THEN 0 - 1
    ELSE IF IsSmall(st) THEN n \div ToNat(st)
    ELSE 0

\* One axis: [exc, start, count, step, scalar], exc "" when it is accepted.
SelectAxis(a, L) ==
    IF a.kind = "list"
    THEN [exc |-> "", start |-> 0, count |-> Min2(L, 2),
          step |-> ToLimbs(1), scalar |-> FALSE]
    ELSE IF a.kind = "int"
    THEN LET i == IF a.lo[1] < 0 THEN a.lo[1] + L ELSE a.lo[1]
         IN  IF i < 0 \/ i >= L
             THEN [exc |-> "IndexError", start |-> 0, count |-> 0,
                   step |-> ToLimbs(1), scalar |-> FALSE]
             ELSE [exc |-> "", start |-> i, count |-> 1,
                   step |-> ToLimbs(1), scalar |-> TRUE]
    ELSE LET start == ClipBound(a.lo, L, 0)
             stop == ClipBound(a.hi, L, L)
         IN  IF a.step = ToLimbs(0)
             THEN [exc |-> "ValueError", start |-> 0, count |-> 0,
                   step |-> ToLimbs(1), scalar |-> FALSE]
             ELSE IF stop < start
             THEN [exc |-> "", start |-> 0, count |-> 0,
                   step |-> ToLimbs(1), scalar |-> FALSE]
             ELSE [exc |-> "", start |-> start,
                   count |-> 1 + FloorDiv(stop - start - 1, a.step),
                   step |-> a.step, scalar |-> FALSE]

\* The axes of the dataset, the missing trailing items being full slices.
SelectAxes(shape, a) ==
    [i \in 1..Len(shape) |->
        SelectAxis(IF i <= Len(a) THEN a[i]
                   ELSE SliceItem(<<>>, <<>>, ToLimbs(1)), shape[i])]

NoSelection ==
    [kind |-> "none", exc |-> "", start |-> <<>>, mshape |-> <<>>,
     step |-> <<>>, scalar |-> <<>>]

h5sel_select(shape, a) ==
    LET ax == SelectAxes(shape, a)
        bad == {i \in 1..Len(shape) : ax[i].exc # ""}
        lists == {i \in 1..Len(a) : a[i].kind = "list"}
    IN  IF Cardinality(lists) > 1
        THEN [NoSelection EXCEPT !.kind = "error", !.exc = "TypeError"]
        ELSE IF bad # {}
        THEN [NoSelection EXCEPT
                !.kind = "error",
                !.exc = ax[CHOOSE i \in bad : \A j \in bad : i <= j].exc]
        ELSE IF lists # {}
        THEN [NoSelection EXCEPT !.kind = "FancySelection"]
        ELSE [kind |-> "SimpleSelection", exc |-> "",
              start |-> [i \in 1..Len(shape) |-> ax[i].start],
              mshape |-> [i \in 1..Len(shape) |-> ax[i].count],
              step |-> [i \in 1..Len(shape) |-> ax[i].step],
              scalar |-> [i \in 1..Len(shape) |-> ax[i].scalar]]

\* SimpleSelection.array_shape: the lengths of the axes not indexed by an
\* integer.
RECURSIVE DropScalar(_, _)
DropScalar(shape, scalar) ==
    IF shape = <<>> THEN <<>>
    ELSE (IF Head(scalar) THEN <<>> ELSE <<Head(shape)>>)
         \o DropScalar(Tail(shape), Tail(scalar))

array_shape(sel) == DropScalar(sel.mshape, sel.scalar)

opt_slicing_selection_ok(sel) ==
    /\ sel.kind = "SimpleSelection"
    /\ numpy_prod(sel.step) = ToLimbs(1)

-----------------------------------------------------------------------------
(* The source array and the reference read.                                *)

\* Element types: the dataset's and the ones a read may ask for.
DatasetDType == "u2"
ItemSize(dt) == CASE dt = "u1" -> 1 [] dt = "u2" -> 2 [] OTHER -> 4

\* The element stored at a coordinate: distinct values, some above 255.
Value(p, shape) == 250 + Ravel(p, shape)

\* A value no element has: the content of memory never written.
Uninit == 0 - 1

\* numpy's cast of an unsigned value to a dtype.
Cast(v, dt) == IF dt = "u1" THEN v % 256 ELSE v

\* new_dtype or dataset.dtype; "" is None.
OutDType(nd) == IF nd = "" THEN DatasetDType ELSE nd

\* Python indexing of one axis of a numpy array: the indices selected.
RefAxis(a, L) ==
    IF a.kind = "list" THEN [exc |-> "", idx |-> <<0, L - 1>>, drop |-> FALSE]
    ELSE IF a.kind = "int"
    THEN LET i == IF a.lo[1] < 0 THEN a.lo[1] + L ELSE a.lo[1]
         IN  IF i < 0 \/ i >= L
             THEN [exc |-> "IndexError", idx |-> <<>>, drop |-> TRUE]
             ELSE [exc |-> "", idx |-> <<i>>, drop |-> TRUE]
    ELSE IF a.step = ToLimbs(0)
    THEN [exc |-> "ValueError", idx |-> <<>>, drop |-> FALSE]
    ELSE LET start == ClipBound(a.lo, L, 0)
             stop == ClipBound(a.hi, L, L)
             n == IF stop <= start THEN 0
                  ELSE IF IsSmall(a.step)
                  THEN (stop - start + ToNat(a.step) - 1) \div ToNat(a.step)
                  ELSE 1
         IN  [exc |-> "",
              idx |-> [k \in 1..n |->
                         start + (k - 1) * (IF IsSmall(a.step)
                                            THEN ToNat(a.step) ELSE 0)],
              drop |-> FALSE]

NoResult ==
    [kind |-> "none", exc |-> "", shape |-> <<>>, flat |-> <<>>,
     dtype |-> "", via |-> ""]

RECURSIVE DropAxes(_, _)
DropAxes(lens, ax) ==
    IF lens = <<>> THEN <<>>
    ELSE (IF Head(ax).drop THEN <<>> ELSE <<Head(lens)>>)
         \o DropAxes(Tail(lens), Tail(ax))

\* arr[args] on the source array, cast to the dtype: the reference read,
\* and what the wrapped h5py __getitem__ returns.
ReferenceRead(ds, a, nd) ==
    LET R == Len(ds.shape)
        ax == [i \in 1..R |->
                 RefAxis(IF i <= Len(a) THEN a[i]
                         ELSE SliceItem(<<>>, <<>>, ToLimbs(1)), ds.shape[i])]
        bad == {i \in 1..R : ax[i].exc # ""}
        lens == [i \in 1..R |-> Len(ax[i].idx)]
        out == DropAxes(lens, ax)
        lists == {i \in 1..Len(a) : a[i].kind = "list"}
    IN  IF ds.extent_type = "NULL"
        THEN [NoResult EXCEPT !.kind = "empty", !.dtype = OutDType(nd),
                              !.via = "generic"]
        ELSE IF Cardinality(lists) > 1
        THEN [NoResult EXCEPT !.kind = "error", !.exc = "TypeError",
                              !.via = "generic"]
        ELSE IF bad # {}
        THEN [NoResult EXCEPT
                !.kind = "error", !.via = "generic",
                !.exc = ax[CHOOSE i \in bad : \A j \in bad : i <= j].exc]
        ELSE [kind |-> IF out = <<>> THEN "scalar" ELSE "array",
              exc |-> "", shape |-> out,
              flat |-> [k \in 1..Prod(lens) |->
                          LET q == Unravel(k - 1, lens)
                          IN  Cast(Value([i \in 1..R |-> ax[i].idx[q[i] + 1]],
                                         ds.shape),
                                   OutDType(nd))],
              dtype |-> OutDType(nd), via |-> "generic"]

-----------------------------------------------------------------------------
(* opt_selection_read: the slice, h5py's chunk iterator and the            *)
(* parameters of a slice/chunk combination.  A slice is [start, stop].     *)

Slice(a, b) == [start |-> a, stop |-> b]

slice_start(sel) == sel.start
slice_shape(sel) == sel.mshape

\* slice_ = tuple(slice(st, st + sh) ...)
slice_of(sel) ==
    [i \in 1..Len(sel.start) |-> Slice(sel.start[i], sel.start[i] + sel.mshape[i])]

\* The test for an empty slice left out.
EmptySlice_never(sel) == FALSE

EmptySlice(sel) == \E i \in 1..Len(sel.mshape) : sel.mshape[i] = 0

\* ChunkIterator.__init__: the selection must lie within the dataset.
ChunkIteratorValid(shape, sl) ==
    \A i \in 1..Len(shape) :
        ~(sl[i].start < 0 \/ sl[i].stop > shape[i] \/ sl[i].stop <= sl[i].start)

ChunkIteratorInit(layout, sl) ==
    [i \in 1..Len(layout) |-> sl[i].start \div layout[i]]

\* ChunkIterator.__next__: iteration ends when the first index ran past
\* the selection.
ChunkIteratorDone(layout, sl, idx) ==
    Len(layout) = 0 \/ idx[1] * layout[1] >= sl[1].stop

\* The item: the chunk at idx trimmed to the selection.
ChunkIteratorItem(layout, sl, idx) ==
    [i \in 1..Len(layout) |->
        Slice(Max2(idx[i] * layout[i], sl[i].start),
              Min2((idx[i] + 1) * layout[i], sl[i].stop))]

\* Bumping the last index and carrying forward.  Before h5py#2341 was
\* fixed a carried index restarted at 0 instead of at the selection's
\* first chunk.
RECURSIVE ChunkIteratorBump(_, _, _, _, _)
ChunkIteratorBump(layout, sl, idx, dim, fixed) ==
    IF dim < 1 THEN idx
    ELSE LET up == [idx EXCEPT ![dim] = @ + 1]
         IN  IF up[dim] * layout[dim] < sl[dim].stop THEN up
             ELSE ChunkIteratorBump(
                     layout, sl,
                     IF dim > 1
                     THEN [up EXCEPT ![dim] =
                             IF fixed THEN sl[dim].start \div layout[dim] ELSE 0]
                     ELSE up,
                     dim - 1, fixed)

\* any(s.stop <= s.start for s in chunk_slice)
BogusItem(cs) == \E i \in 1..Len(cs) : cs[i].stop <= cs[i].start

\* slice_as_chunk_slice with the stop reduced modulo the chunk shape too.
slice_as_chunk_slice_stop_reduced(cs, chunks) ==
    [i \in 1..Len(cs) |-> Slice(cs[i].start % chunks[i],
                                cs[i].stop % chunks[i])]

\* slice_as_chunk_slice without the reduction modulo the chunk shape: the
\* dataset coordinates are used inside the chunk.
slice_as_chunk_slice_unreduced(cs, chunks) ==
    [i \in 1..Len(cs) |-> Slice(cs[i].start, cs[i].stop)]

slice_as_chunk_slice(cs, chunks) ==
    [i \in 1..Len(cs) |->
        Slice(cs[i].start % chunks[i],
              (cs[i].start % chunks[i]) + (cs[i].stop - cs[i].start))]

\* chunk_as_slice_slice without the shift by the start of the slice: every
\* piece lands at the origin of the buffer.
chunk_as_slice_slice_unshifted(cs, sst) ==
    [i \in 1..Len(cs) |-> Slice(0, cs[i].stop - cs[i].start)]

chunk_as_slice_slice(cs, sst) ==
    [i \in 1..Len(cs) |-> Slice(cs[i].start - sst[i], cs[i].stop - sst[i])]

\* The stop of the item taken for the coordinate in place of its start.
chunk_slice_start_stop(cs) == [i \in 1..Len(cs) |-> cs[i].stop]

chunk_slice_start(cs) == [i \in 1..Len(cs) |-> cs[i].start]

\* get_chunk_info_by_coord: the chunk that holds the coordinate, by the
\* offset of its first element.
ChunkOrigin(coord, chunks) ==
    [i \in 1..Len(coord) |-> (coord[i] \div chunks[i]) * chunks[i]]

-----------------------------------------------------------------------------
(* The Blosc2 container of a chunk and _read_chunk_slice.                  *)

\* The array stored for the chunk at an origin: the chunk shape in full,
\* zero where the chunk reaches past the dataset.
Stored(ds, origin, q) ==
    LET p == [i \in 1..Len(origin) |-> origin[i] + q[i]]
    IN  IF \A i \in 1..Len(p) : p[i] < ds.shape[i]
        THEN Value(p, ds.shape) ELSE 0

SliceShape(sl) == [i \in 1..Len(sl) |-> sl[i].stop - sl[i].start]

\* A slice of an axis of length n, as numpy clips it.
ClipSlice(s, n) == Slice(Min2(s.start, n), Max2(Min2(s.stop, n), Min2(s.start, n)))

\* schunk[slice_] of an intact container, with the dtype the container
\* records: the dataset's, or an opaque one of the same size.
IntactPayload(ds, origin, sl, kind) ==
    LET cl == [i \in 1..Len(sl) |-> ClipSlice(sl[i], ds.chunks[i])]
    IN  [exc |-> "", kind |-> kind, itemsize |-> ItemSize(DatasetDType),
         dtype |-> IF kind = "V" THEN "V" ELSE DatasetDType,
         shape |-> SliceShape(cl),
         data |-> [q \in Box(SliceShape(cl)) |->
                     Stored(ds, origin,
                            [i \in 1..Len(cl) |-> cl[i].start + q[i]])]]

\* What a damaged container may give: another dtype, another element
\* size, another shape or rank; its elements are not the dataset's.
Damaged == 9999

DamagedPayload(kind, dtype, itemsize, shape) ==
    [exc |-> "", kind |-> kind, itemsize |-> itemsize, dtype |-> dtype,
     shape |-> shape, data |-> [q \in Box(shape) |-> Damaged]]

\* Largest extent of a damaged payload.
MaxDamagedExtent == 2

DamagedShapes(req) ==
    ({s \in [1..Len(req) -> 1..MaxDamagedExtent] : TRUE} \ {req})
    \cup {req \o <<1>>}
    \cup (IF req = <<>> THEN {} ELSE {SubSeq(req, 1, Len(req) - 1)})

\* Everything b2schunk_open(...)[slice_] may do for one chunk.
Payloads(ds, origin, sl) ==
    {IntactPayload(ds, origin, sl, k) : k \in {"u", "V"}}
    \cup {DamagedPayload("u", "u4", 4, SliceShape(sl)),
          DamagedPayload("V", "V", 4, SliceShape(sl)),
          DamagedPayload("V", "V", 3, SliceShape(sl)),
          DamagedPayload("V", "V", 1, SliceShape(sl))}
    \cup {DamagedPayload("u", DatasetDType, ItemSize(DatasetDType), s)
            : s \in DamagedShapes(SliceShape(sl))}
    \cup {[exc |-> "OSError", kind |-> "", itemsize |-> 0, dtype |-> "",
           shape |-> <<>>, data |-> <<>>]}

\* _read_chunk_slice: the payload as it is unless its dtype is opaque;
\* an opaque one is wrapped as the dataset's dtype over the same buffer,
\* which numpy refuses when the buffer is too small.
_read_chunk_slice(s, dtype) ==
    IF s.exc # "" THEN [exc |-> s.exc, dtype |-> "", shape |-> <<>>, data |-> <<>>]
    ELSE IF s.kind # "V"
    THEN [exc |-> "", dtype |-> s.dtype, shape |-> s.shape, data |-> s.data]
    ELSE IF Prod(s.shape) * ItemSize(dtype) > Prod(s.shape) * s.itemsize
    THEN [exc |-> "TypeError", dtype |-> "", shape |-> <<>>, data |-> <<>>]
    ELSE [exc |-> "", dtype |-> dtype, shape |-> s.shape,
          data |-> IF s.itemsize = ItemSize(dtype) THEN s.data
                   ELSE [q \in Box(s.shape) |-> Damaged]]

\* The check of the sub-array read (lines 138-142): true when it is bogus.
InvalidChunkSlice(arr, dtype, sshape) ==
    \/ arr.dtype # dtype
    \/ Len(arr.shape) # Len(sshape)
    \/ TupleGreater(arr.shape, sshape)

\* numpy's target[region] = source for arrays of one rank: the source is
\* broadcast along the axes where it has length 1.
Broadcastable(src, region) ==
    /\ Len(src) = Len(region)
    /\ \A i \in 1..Len(src) : src[i] = region[i] \/ src[i] = 1

Assigned(buf, region, arr, dt) ==
    [p \in DOMAIN buf |->
        IF \A i \in 1..Len(region) :
              region[i].start <= p[i] /\ p[i] < region[i].stop
        THEN Cast(arr.data[[i \in 1..Len(region) |->
                              IF arr.shape[i] = 1 THEN 0
                              ELSE p[i] - region[i].start]], dt)
        ELSE buf[p]]

Touched(w, region) ==
    [p \in DOMAIN w |->
        IF \A i \in 1..Len(region) :
              region[i].start <= p[i] /\ p[i] < region[i].stop
        THEN w[p] + 1 ELSE w[p]]

\* numpy's arr[()]: the element of a 0-dimensional array, else the array.
IndexEmptyTuple(buf, shape, dt) ==
    [kind |-> IF shape = <<>> THEN "scalar" ELSE "array",
     exc |-> "", shape |-> shape,
     flat |-> [k \in 1..Prod(shape) |-> buf[Unravel(k - 1, shape)]],
     dtype |-> dt, via |-> "opt"]

\* numpy's arr.reshape(shape) of a C-ordered array.
Reshape(buf, shape, to, dt) ==
    [kind |-> "array", exc |-> "", shape |-> to,
     flat |-> [k \in 1..Prod(shape) |-> buf[Unravel(k - 1, shape)]],
     dtype |-> dt, via |-> "opt"]

\* Lines 154-158: the result in the dimensions of the selection.
AdjustResult(buf, sel, dt) ==
    IF array_shape(sel) = <<>>
    THEN IndexEmptyTuple(buf, slice_shape(sel), dt)
    ELSE Reshape(buf, slice_shape(sel), array_shape(sel), dt)

-----------------------------------------------------------------------------
(* The h5py.Dataset class and its patching.  A function object is a        *)
(* number: the __getitem__ h5py defines, B2Dataset___getitem__, and the    *)
(* functions other code makes with functools.wraps.                        *)

Dataset___getitem__ == 0
B2Dataset___getitem__ == 1
ForeignGetitems == 2..(1 + MaxForeign)
Functions == {Dataset___getitem__, B2Dataset___getitem__} \cup ForeignGetitems

\* A function without a __wrapped__ attribute has this for it.
NoFunction == 0 - 1

\* The class as the patching functions see it.
DatasetClass(g, w, m) == [getitem |-> g, wrapped |-> w, marker |-> m, exc |-> ""]

\* h5py.Dataset before anything patched it.
PristineClass ==
    DatasetClass(Dataset___getitem__, [f \in Functions |-> NoFunction], FALSE)

is_dataset_class_patched(c) == c.marker

\* update_wrapper done for B2Dataset___getitem__ when the module is
\* imported: it wraps the __getitem__ of h5py whatever is installed.
update_wrapper_at_import(w, wrapper, target) ==
    [w EXCEPT ![wrapper] = IF wrapper = B2Dataset___getitem__
                           THEN Dataset___getitem__ ELSE target]

\* functools.update_wrapper(wrapper, wrapped): __wrapped__ is set last.
update_wrapper(w, wrapper, target) == [w EXCEPT ![wrapper] = target]

\* patch_dataset_class with the early return left out.
patch_dataset_class_again(c) ==
    [c EXCEPT !.marker = TRUE,
              !.wrapped = update_wrapper(c.wrapped, B2Dataset___getitem__,
                                         c.getitem),
              !.getitem = B2Dataset___getitem__]

patch_dataset_class(c) ==
    IF is_dataset_class_patched(c) THEN c
    ELSE [c EXCEPT !.marker = TRUE,
                   !.wrapped = update_wrapper(c.wrapped, B2Dataset___getitem__,
                                              c.getitem),
                   !.getitem = B2Dataset___getitem__]

\* unpatch_dataset_class that leaves the attribute on the class.
unpatch_dataset_class_keeping_marker(c) ==
    IF ~is_dataset_class_patched(c) THEN c
    ELSE IF c.getitem # B2Dataset___getitem__
    THEN [c EXCEPT !.exc = "ValueError"]
    ELSE [c EXCEPT !.getitem = c.wrapped[c.getitem]]

\* unpatch_dataset_class without the test for a patch made over it.
unpatch_dataset_class_unchecked(c) ==
    IF ~is_dataset_class_patched(c) THEN c
    ELSE [c EXCEPT !.getitem = c.wrapped[c.getitem], !.marker = FALSE]

unpatch_dataset_class(c) ==
    IF ~is_dataset_class_patched(c) THEN c
    ELSE IF c.getitem # B2Dataset___getitem__
    THEN [c EXCEPT !.exc = "ValueError"]
    ELSE [c EXCEPT !.getitem = c.wrapped[c.getitem], !.marker = FALSE]

\* The end of patching_dataset_class that unpatches whatever it found.
patching_exit_always(c, already_patched) == unpatch_dataset_class(c)

\* patching_dataset_class after the yield (lines 277-279 and 284-285).
patching_exit(c, already_patched) ==
    IF already_patched THEN c ELSE unpatch_dataset_class(c)

\* What is observed of the calls: the last one, the exception it left
\* with and whether the class was patched before it, and the function that was h5py.Dataset.__getitem__ when the class
\* was last patched.
NoPatchTrace == [op |-> "", exc |-> "", was |-> FALSE, over |-> NoFunction]

\* The threads that call the patching functions, and one of them outside
\* every call: no exception left to it, no context manager of its own.
Threads == 1..MaxThreads
ThreadOut == [pc |-> "out", already_patched |-> FALSE, in_cm |-> FALSE,
              exc |-> ""]
NoThreads == [t \in Threads |-> ThreadOut]

\* The class patched once over the __getitem__ of h5py, no context entered.
ClassPatched ==
    LET c == patch_dataset_class(PristineClass)
    IN  /\ getitem = c.getitem
        /\ wrapped = c.wrapped
        /\ marker = c.marker
        /\ cmgrs = <<>>
        /\ patch_trace = NoPatchTrace
        /\ threads = NoThreads

-----------------------------------------------------------------------------
(* The state machine.                                                      *)

NoArray == [exc |-> "", dtype |-> "", shape |-> <<>>, data |-> <<>>]

\* The dtype kind, the number of elements and the number of bytes of a
\* chunk payload.
PayloadSize(s) ==
    [kind |-> s.kind, count |-> Prod(s.shape),
     nbytes |-> Prod(s.shape) * s.itemsize]

NoPayload == [kind |-> "", count |-> 0, nbytes |-> 0]

\* What is observed of the read in flight: how often the buffer was
\* allocated, the chunk iterator made or advanced, a chunk looked up, a
\* chunk read, a sub-array placed; the calls of the wrapped __getitem__ and their arguments;
\* what opt_slicing_enabled() gave when it was called; whether the dataset
\* property came from the instance dictionary; whether a chunk payload was
\* damaged; the size of the last chunk payload; the message of the
\* exception a check raised; the coordinate of the last chunk lookup.
NoTrace ==
    [allocs |-> 0, enums |-> 0, lookups |-> 0, reads |-> 0, places |-> 0,
     fallbacks |-> 0,
     fb_args |-> <<>>, fb_dtype |-> "", enabled |-> <<>>, memo |-> FALSE,
     damaged |-> FALSE, payload |-> NoPayload, reason |-> "",
     coord |-> <<>>]

\* The messages of the exceptions the checks of opt_slice_read raise.
DatasetMessage == "Dataset is not suitable for Blosc2 optimized slicing"
EnabledMessage == "Blosc2 optimized slicing is unavailable or disabled"
SelectionMessage_copied == "Dataset is not suitable for Blosc2 optimized slicing"
SelectionMessage == "Selection is not suitable for Blosc2 optimized slicing"

\* The message opt_slice_read raises its exception with, "" if it raises
\* none, for a dataset, what opt_slicing_enabled() gives and what
\* opt_slicing_selection_ok gives for the selection.
no_opt_reason(ds, h, enabled, selection_ok) ==
    IF ~cached_property_get(<<>>, ds, h) THEN DatasetMessage
    ELSE IF ~enabled THEN EnabledMessage
    ELSE IF ~selection_ok THEN SelectionMessage
    ELSE ""

\* The exception opt_slice_read raises when it does not apply.
_no_opt_error == "NoOptSlicingError"

\* except Exception: in B2Dataset___getitem__.
Catches_Exception(exc) == TRUE

\* except NoOptSlicingError: in B2Dataset___getitem__.
Catches(exc) == exc = "NoOptSlicingError"

\* The pairs of dataset and host a behaviour of Spec starts from: every
\* combination of dataset properties and platform on the plain geometry,
\* and a dataset of two dimensions under either h5py.
Worlds ==
    {<<ds, h>> \in Datasets \X Hosts :
        \/ ds.shape \in {PlainShape, <<>>} /\ h.chunk_iter_fixed
        \/ Len(ds.shape) = 2 /\ h.system = "Linux"}

\* Those of SlicingSpec: the datasets of every geometry, all suitable,
\* under either h5py where the dataset has more than one dimension.
SlicingWorlds ==
    {<<ds, h>> \in Datasets \X Hosts :
        /\ <<ds.shape, ds.chunks>> \in Geometries
        /\ h.system = "Linux"
        /\ (Len(ds.shape) > 1 \/ h.chunk_iter_fixed)}

Idle ==
    /\ ok_cache = <<>>
    /\ pc = "idle"
    /\ args = <<>>
    /\ new_dtype = ""
    /\ selection = NoSelection
    /\ slice_arr = <<>>
    /\ writes = <<>>
    /\ chunk_index = <<>>
    /\ chunk_slice = <<>>
    /\ chunk_slice_arr = NoArray
    /\ raised = ""
    /\ result = NoResult
    /\ trace = NoTrace

Init ==
    /\ \E w \in Worlds : dataset = w[1] /\ host = w[2]
    /\ environ \in Environs
    /\ Idle
    /\ ClassPatched

SlicingInit ==
    /\ \E w \in SlicingWorlds : dataset = w[1] /\ host = w[2]
    /\ environ = [present |-> FALSE, value |-> <<>>]
    /\ Idle
    /\ ClassPatched

\* An exception leaves opt_slice_read: B2Dataset___getitem__ goes on to
\* the wrapped __getitem__ if it catches it, else the caller gets it.
Raise(exc) ==
    /\ raised' = exc
    /\ IF Catches(exc)
       THEN pc' = "fallback" /\ result' = result
       ELSE /\ pc' = "return"
            /\ result' = [NoResult EXCEPT !.kind = "error", !.exc = exc,
                                          !.via = "opt"]

\* The raw arguments of __getitem__ for a set of requests: each tuple of
\* items, and each single item bare.
RawArgs(requests) ==
    {[is_tuple |-> TRUE, items |-> r, item |-> ListItem] : r \in requests}
    \cup {[is_tuple |-> FALSE, items |-> <<>>, item |-> r[1]] :
            r \in {x \in requests : Len(x) = 1}}

\* args if isinstance(args, tuple) else (args,)
TupleArgs(raw) == IF raw.is_tuple THEN raw.items ELSE <<raw.item>>

NewDTypes == {"", "u1"}

\* dataset[args] is evaluated while B2Dataset___getitem__ is the
\* __getitem__ of the class: B2Dataset___getitem__(self, args, new_dtype)
\* is called.
Getitem(raw, nd) ==
    /\ pc = "idle"
    /\ getitem = B2Dataset___getitem__
    /\ pc' = "dataset_ok"
    /\ args' = TupleArgs(raw)
    /\ new_dtype' = nd
    /\ UNCHANGED patchvars
    /\ UNCHANGED <<dataset, host, environ, ok_cache, selection, slice_arr,
                   writes, chunk_index, chunk_slice, chunk_slice_arr, raised,
                   result, trace>>

\* opt_slice_read, lines 177-179: the cached dataset property.  The
\* attribute is looked up when the line runs: with nothing in the instance
\* dictionary and the property gone from the class, the lookup fails.
CheckDataset ==
    /\ pc = "dataset_ok"
    /\ IF ~has_blosc2_opt_slicing_ok(ok_cache, marker)
       THEN Raise("AttributeError") /\ UNCHANGED <<ok_cache, trace>>
       ELSE LET ok == cached_property_get(ok_cache, dataset, host)
            IN  /\ ok_cache' = <<ok>>
                /\ trace' = [trace EXCEPT
                      !.memo = (ok_cache # <<>>),
                      !.reason = IF ok THEN "" ELSE DatasetMessage]
                /\ IF ~ok THEN Raise(_no_opt_error)
                   ELSE pc' = "enabled" /\ UNCHANGED <<raised, result>>
    /\ UNCHANGED patchvars
    /\ UNCHANGED <<dataset, host, environ, args, new_dtype, selection,
                   slice_arr, writes, chunk_index, chunk_slice,
                   chunk_slice_arr>>

\* opt_slice_read, lines 181-183: the environment.
CheckEnabled ==
    /\ pc = "enabled"
    /\ trace' = [trace EXCEPT
          !.enabled = <<opt_slicing_enabled(environ)>>,
          !.reason = IF opt_slicing_enabled(environ) THEN ""
                     ELSE EnabledMessage]
    /\ IF ~opt_slicing_enabled(environ) THEN Raise(_no_opt_error)
       ELSE pc' = "select" /\ UNCHANGED <<raised, result>>
    /\ UNCHANGED patchvars
    /\ UNCHANGED <<dataset, host, environ, ok_cache, args, new_dtype,
                   selection, slice_arr, writes, chunk_index, chunk_slice,
                   chunk_slice_arr>>

\* opt_slice_read, line 185: the selection is made.
Select ==
    /\ pc = "select"
    /\ LET sel == h5sel_select(dataset.shape, args)
       IN  /\ selection' = sel
           /\ IF sel.kind = "error" THEN Raise(sel.exc)
              ELSE pc' = "selection_ok" /\ UNCHANGED <<raised, result>>
    /\ UNCHANGED patchvars
    /\ UNCHANGED <<dataset, host, environ, ok_cache, args, new_dtype,
                   slice_arr, writes, chunk_index, chunk_slice,
                   chunk_slice_arr, trace>>

\* opt_slice_read, lines 186-190: the selection is checked.
CheckSelection ==
    /\ pc = "selection_ok"
    /\ IF ~opt_slicing_selection_ok(selection) THEN Raise(_no_opt_error)
       ELSE pc' = "allocate" /\ UNCHANGED <<raised, result>>
    /\ trace' = [trace EXCEPT
          !.reason = IF opt_slicing_selection_ok(selection) THEN ""
                     ELSE SelectionMessage]
    /\ UNCHANGED patchvars
    /\ UNCHANGED <<dataset, host, environ, ok_cache, args, new_dtype,
                   selection, slice_arr, writes, chunk_index, chunk_slice,
                   chunk_slice_arr>>

\* opt_selection_read, lines 101-112: the buffer is allocated; an empty
\* slice is returned at once, else the chunk iterator is made.
Allocate ==
    /\ pc = "allocate"
    /\ slice_arr' = [p \in Box(slice_shape(selection)) |-> Uninit]
    /\ writes' = [p \in Box(slice_shape(selection)) |-> 0]
    /\ IF EmptySlice(selection)
       THEN /\ result' = Reshape(slice_arr', slice_shape(selection),
                                 array_shape(selection), OutDType(new_dtype))
            /\ pc' = "return"
            /\ trace' = [trace EXCEPT !.allocs = @ + 1]
            /\ UNCHANGED <<chunk_index, raised>>
       ELSE IF ~ChunkIteratorValid(dataset.shape, slice_of(selection))
       THEN /\ Raise("ValueError")
            /\ trace' = [trace EXCEPT !.allocs = @ + 1, !.enums = @ + 1]
            /\ UNCHANGED chunk_index
       ELSE /\ chunk_index' = ChunkIteratorInit(dataset.chunks,
                                                slice_of(selection))
            /\ pc' = "next_chunk"
            /\ trace' = [trace EXCEPT !.allocs = @ + 1, !.enums = @ + 1]
            /\ UNCHANGED <<raised, result>>
    /\ UNCHANGED patchvars
    /\ UNCHANGED <<dataset, host, environ, ok_cache, args, new_dtype,
                   selection, chunk_slice, chunk_slice_arr>>

\* Lines 112-115: the next item of iter_chunks; a bogus one is skipped.
NextChunk ==
    /\ pc = "next_chunk"
    /\ LET sl == slice_of(selection)
           item == ChunkIteratorItem(dataset.chunks, sl, chunk_index)
       IN  IF ChunkIteratorDone(dataset.chunks, sl, chunk_index)
           THEN /\ pc' = "adjust"
                /\ chunk_slice' = <<>>
                /\ UNCHANGED chunk_index
           ELSE /\ chunk_slice' = item
                /\ chunk_index' = ChunkIteratorBump(
                       dataset.chunks, sl, chunk_index, Len(chunk_index),
                       host.chunk_iter_fixed)
                /\ pc' = IF BogusItem(item) THEN "next_chunk" ELSE "chunk_info"
    /\ trace' = [trace EXCEPT !.enums = @ + 1]
    /\ UNCHANGED patchvars
    /\ UNCHANGED <<dataset, host, environ, ok_cache, args, new_dtype,
                   selection, slice_arr, writes, chunk_slice_arr, raised,
                   result>>

\* Line 134: the byte offset of the chunk is looked up; HDF5 may fail.
GetChunkInfo(fails) ==
    /\ pc = "chunk_info"
    /\ trace' = [trace EXCEPT !.lookups = @ + 1,
                              !.coord = chunk_slice_start(chunk_slice)]
    /\ IF fails THEN Raise("OSError")
       ELSE pc' = "read_chunk" /\ UNCHANGED <<raised, result>>
    /\ UNCHANGED patchvars
    /\ UNCHANGED <<dataset, host, environ, ok_cache, args, new_dtype,
                   selection, slice_arr, writes, chunk_index, chunk_slice,
                   chunk_slice_arr>>

\* Lines 135-137: the part of the chunk is read from its container.
ReadChunk(payload) ==
    /\ pc = "read_chunk"
    /\ LET arr == _read_chunk_slice(payload, DatasetDType)
       IN  /\ chunk_slice_arr' = arr
           /\ trace' = [trace EXCEPT
                 !.reads = @ + 1,
                 !.payload = PayloadSize(payload),
                 !.damaged = @ \/ payload \notin
                     {IntactPayload(
                         dataset,
                         ChunkOrigin(chunk_slice_start(chunk_slice),
                                     dataset.chunks),
                         slice_as_chunk_slice(chunk_slice, dataset.chunks), k)
                        : k \in {"u", "V"}}]
           /\ IF arr.exc # "" THEN Raise(arr.exc)
              ELSE pc' = "validate" /\ UNCHANGED <<raised, result>>
    /\ UNCHANGED patchvars
    /\ UNCHANGED <<dataset, host, environ, ok_cache, args, new_dtype,
                   selection, slice_arr, writes, chunk_index, chunk_slice>>

\* The check of the sub-array going on to the next chunk without the
\* placement.
Validate_without_place ==
    /\ pc = "validate"
    /\ IF InvalidChunkSlice(chunk_slice_arr, DatasetDType,
                            slice_shape(selection))
       THEN Raise("RuntimeError")
       ELSE pc' = "next_chunk" /\ UNCHANGED <<raised, result>>
    /\ UNCHANGED patchvars
    /\ UNCHANGED <<dataset, host, environ, ok_cache, args, new_dtype,
                   selection, slice_arr, writes, chunk_index, chunk_slice,
                   chunk_slice_arr, trace>>

\* Lines 138-149: the sub-array is checked.
Validate ==
    /\ pc = "validate"
    /\ IF InvalidChunkSlice(chunk_slice_arr, DatasetDType,
                            slice_shape(selection))
       THEN Raise("RuntimeError")
       ELSE pc' = "place" /\ UNCHANGED <<raised, result>>
    /\ UNCHANGED patchvars
    /\ UNCHANGED <<dataset, host, environ, ok_cache, args, new_dtype,
                   selection, slice_arr, writes, chunk_index, chunk_slice,
                   chunk_slice_arr, trace>>

\* Line 152: the sub-array is placed in the buffer.
Place ==
    /\ pc = "place"
    /\ LET region == chunk_as_slice_slice(chunk_slice, slice_start(selection))
       IN  IF ~Broadcastable(chunk_slice_arr.shape, SliceShape(region))
           THEN /\ Raise("ValueError")
                /\ UNCHANGED <<slice_arr, writes, trace>>
           ELSE /\ slice_arr' = Assigned(slice_arr, region, chunk_slice_arr,
                                         OutDType(new_dtype))
                /\ writes' = Touched(writes, region)
                /\ trace' = [trace EXCEPT !.places = @ + 1]
                /\ pc' = "next_chunk"
                /\ UNCHANGED <<raised, result>>
    /\ UNCHANGED patchvars
    /\ UNCHANGED <<dataset, host, environ, ok_cache, args, new_dtype,
                   selection, chunk_index, chunk_slice, chunk_slice_arr>>

\* Lines 154-158: the result in the dimensions the selection dictates.
Adjust ==
    /\ pc = "adjust"
    /\ result' = AdjustResult(slice_arr, selection, OutDType(new_dtype))
    /\ pc' = "return"
    /\ UNCHANGED patchvars
    /\ UNCHANGED <<dataset, host, environ, ok_cache, args, new_dtype,
                   selection, slice_arr, writes, chunk_index, chunk_slice,
                   chunk_slice_arr, raised, trace>>

\* The wrapped __getitem__ called without new_dtype.
WrappedCall_without_dtype(a, nd) == [args |-> a, new_dtype |-> ""]

\* B2Dataset___getitem__.__wrapped__(self, args, new_dtype): what the
\* wrapped __getitem__ is called with.
WrappedCall(a, nd) == [args |-> a, new_dtype |-> nd]

\* B2Dataset___getitem__, line 215: the wrapped __getitem__ is called.
Fallback ==
    /\ pc = "fallback"
    /\ LET call == WrappedCall(args, new_dtype)
       IN  /\ result' = ReferenceRead(dataset, call.args, call.new_dtype)
           /\ trace' = [trace EXCEPT !.fallbacks = @ + 1,
                                     !.fb_args = call.args,
                                     !.fb_dtype = call.new_dtype]
    /\ pc' = "return"
    /\ UNCHANGED patchvars
    /\ UNCHANGED <<dataset, host, environ, ok_cache, args, new_dtype,
                   selection, slice_arr, writes, chunk_index, chunk_slice,
                   chunk_slice_arr, raised>>

\* The caller has the result; the locals of the call are gone.
Return ==
    /\ pc = "return"
    /\ pc' = "idle"
    /\ args' = <<>>
    /\ new_dtype' = ""
    /\ selection' = NoSelection
    /\ slice_arr' = <<>>
    /\ writes' = <<>>
    /\ chunk_index' = <<>>
    /\ chunk_slice' = <<>>
    /\ chunk_slice_arr' = NoArray
    /\ raised' = ""
    /\ result' = NoResult
    /\ trace' = NoTrace
    /\ UNCHANGED patchvars
    /\ UNCHANGED <<dataset, host, environ, ok_cache>>

\* BLOSC2_FILTER is set, changed or removed in the environment.
SetEnv(e) ==
    /\ environ # e
    /\ environ' = e
    /\ UNCHANGED patchvars
    /\ UNCHANGED <<dataset, host, ok_cache, pc, args, new_dtype, selection,
                   slice_arr, writes, chunk_index, chunk_slice,
                   chunk_slice_arr, raised, result, trace>>

\* What the steps of a read in flight may do.
ReadStep ==
    \/ CheckDataset
    \/ CheckEnabled
    \/ Select
    \/ CheckSelection
    \/ Allocate
    \/ NextChunk
    \/ \E fails \in BOOLEAN : GetChunkInfo(fails)
    \/ /\ pc = "read_chunk"
       /\ \E payload \in Payloads(
              dataset,
              ChunkOrigin(chunk_slice_start(chunk_slice), dataset.chunks),
              slice_as_chunk_slice(chunk_slice, dataset.chunks)) :
            ReadChunk(payload)
    \/ Validate
    \/ Place
    \/ Adjust
    \/ Fallback
    \/ Return

Next ==
    \/ /\ pc = "idle"
       /\ \E raw \in RawArgs(FewRequests(dataset)), nd \in NewDTypes :
            Getitem(raw, nd)
    \/ ReadStep
    \/ \E e \in Environs : SetEnv(e)

Spec == Init /\ [][Next]_vars

SlicingNext ==
    \/ /\ pc = "idle"
       /\ \E raw \in RawArgs(Requests(dataset)), nd \in NewDTypes :
            Getitem(raw, nd)
    \/ ReadStep

SlicingSpec == SlicingInit /\ [][SlicingNext]_vars

-----------------------------------------------------------------------------
(* The calls that patch and unpatch h5py.Dataset, in one thread.           *)

Class == DatasetClass(getitem, wrapped, marker)

SetClass(c) ==
    /\ getitem' = c.getitem
    /\ wrapped' = c.wrapped
    /\ marker' = c.marker

\* The contexts entered, all marked as having had the class changed under
\* them by a call that is not their own.
Disturbed(stack) == [i \in 1..Len(stack) |-> [stack[i] EXCEPT !.disturbed = TRUE]]

\* patch_dataset_class() is called.
PatchDatasetClass ==
    /\ LET c == patch_dataset_class(Class)
       IN  /\ SetClass(c)
           /\ patch_trace' = [op |-> "patch", exc |-> c.exc, was |-> marker,
                              over |-> IF c.marker /\ ~marker THEN getitem
                                       ELSE patch_trace.over]
    /\ UNCHANGED cmgrs

\* unpatch_dataset_class() is called.
UnpatchDatasetClass ==
    /\ LET c == unpatch_dataset_class(Class)
       IN  /\ SetClass(c)
           /\ patch_trace' = [patch_trace EXCEPT !.op = "unpatch",
                                                 !.exc = c.exc,
                                                 !.was = marker]
    /\ cmgrs' = Disturbed(cmgrs)

\* with patching_dataset_class(): is entered (lines 275-283, to the yield).
EnterPatching ==
    /\ Len(cmgrs) < MaxNest
    /\ LET already_patched == is_dataset_class_patched(Class)
           c == IF already_patched THEN Class ELSE patch_dataset_class(Class)
       IN  /\ SetClass(c)
           /\ cmgrs' = Append(cmgrs, [already_patched |-> already_patched,
                                      disturbed |-> FALSE,
                                      entered_over |-> getitem])
           /\ patch_trace' = [op |-> "enter", exc |-> c.exc, was |-> marker,
                              over |-> IF c.marker /\ ~marker THEN getitem
                                       ELSE patch_trace.over]

\* The body of the innermost with statement ends, normally or with the
\* exception exc (lines 278-279 and 284-285): the exception the with
\* statement leaves with is that of unpatch_dataset_class if it raises.
ExitPatching(exc) ==
    /\ cmgrs # <<>>
    /\ LET top == cmgrs[Len(cmgrs)]
           c == patching_exit(Class, top.already_patched)
       IN  /\ SetClass([c EXCEPT !.exc = ""])
           /\ patch_trace' = [patch_trace EXCEPT
                                 !.op = "exit",
                                 !.was = marker,
                                 !.exc = IF c.exc # "" THEN c.exc ELSE exc]
    /\ cmgrs' = SubSeq(cmgrs, 1, Len(cmgrs) - 1)

\* Other code wraps the current __getitem__ with a new function of its
\* own (functools.wraps) and installs it.
ForeignWrap ==
    /\ \E f \in ForeignGetitems :
          /\ wrapped[f] = NoFunction
          /\ \A g \in ForeignGetitems : g < f => wrapped[g] # NoFunction
          /\ wrapped' = update_wrapper(wrapped, f, getitem)
          /\ getitem' = f
    /\ cmgrs' = Disturbed(cmgrs)
    /\ patch_trace' = [patch_trace EXCEPT !.op = "foreign_wrap", !.exc = "",
                                         !.was = marker]
    /\ UNCHANGED marker

\* Other code removes its wrapper, the installed __getitem__.
ForeignUnwrap ==
    /\ getitem \in ForeignGetitems
    /\ getitem' = wrapped[getitem]
    /\ cmgrs' = Disturbed(cmgrs)
    /\ patch_trace' = [patch_trace EXCEPT !.op = "foreign_unwrap", !.exc = "",
                                         !.was = marker]
    /\ UNCHANGED <<wrapped, marker>>

\* The exceptions the body of a with statement ends with; "" is none.
BodyExceptions == {"", "CMTestError"}

PatchInit ==
    /\ dataset = CHOOSE ds \in Datasets : ds.shape = PlainShape /\ ds.chunked
                                          /\ ds.filters = {Blosc2FilterId}
                                          /\ ds.isnative /\ ds.mode = "r"
    /\ host = [system |-> "Linux", chunk_iter_fixed |-> TRUE]
    /\ environ = [present |-> FALSE, value |-> <<>>]
    /\ Idle
    /\ getitem = PristineClass.getitem
    /\ wrapped = PristineClass.wrapped
    /\ marker = PristineClass.marker
    /\ cmgrs = <<>>
    /\ patch_trace = NoPatchTrace
    /\ threads = NoThreads

PatchNext ==
    \/ PatchDatasetClass /\ UNCHANGED <<readvars, threads>>
    \/ UnpatchDatasetClass /\ UNCHANGED <<readvars, threads>>
    \/ EnterPatching /\ UNCHANGED <<readvars, threads>>
    \/ \E exc \in BodyExceptions : ExitPatching(exc)
                                  /\ UNCHANGED <<readvars, threads>>
    \/ ForeignWrap /\ UNCHANGED <<readvars, threads>>
    \/ ForeignUnwrap /\ UNCHANGED <<readvars, threads>>

PatchSpec == PatchInit /\ [][PatchNext]_vars

-----------------------------------------------------------------------------
(* The calls that patch and unpatch h5py.Dataset made by several threads.  *)
(* None of the functions takes a lock, so a thread may be suspended        *)
(* between any two statements: each step below is one statement of         *)
(* patch_dataset_class, unpatch_dataset_class or patching_dataset_class.   *)

SetThread(t, r) == threads' = [threads EXCEPT ![t] = r]

\* The call of patch_dataset_class or unpatch_dataset_class of thread t
\* returns or raises exc: into the body of the with statement if the call
\* was made on entering it, else the thread is outside every call.
ThreadReturn(t, exc) ==
    IF threads[t].in_cm /\ threads[t].pc \in {"patch_233", "patch_241"}
    THEN SetThread(t, [threads[t] EXCEPT !.pc = "body"])
    ELSE SetThread(t, [ThreadOut EXCEPT !.exc = exc])

\* with patching_dataset_class(): lines 275-281, to the yield of a class
\* found patched or to the call of patch_dataset_class.
ThreadEnter(t) ==
    /\ threads[t].pc = "out"
    /\ SetThread(t, [pc |-> IF marker THEN "body" ELSE "patch_233",
                     already_patched |-> marker, in_cm |-> TRUE, exc |-> ""])
    /\ UNCHANGED <<getitem, wrapped, marker>>
    /\ UNCHANGED <<readvars, cmgrs, patch_trace>>

\* patch_dataset_class() is called outside a with statement.
ThreadPatch(t) ==
    /\ threads[t].pc = "out"
    /\ SetThread(t, [ThreadOut EXCEPT !.pc = "patch_233"])
    /\ UNCHANGED <<getitem, wrapped, marker>>
    /\ UNCHANGED <<readvars, cmgrs, patch_trace>>

\* Lines 233-234.
ThreadPatchCheck(t) ==
    /\ threads[t].pc = "patch_233"
    /\ IF marker THEN ThreadReturn(t, "")
       ELSE SetThread(t, [threads[t] EXCEPT !.pc = "patch_236"])
    /\ UNCHANGED <<getitem, wrapped, marker>>
    /\ UNCHANGED <<readvars, cmgrs, patch_trace>>

\* Line 236.
ThreadPatchMarker(t) ==
    /\ threads[t].pc = "patch_236"
    /\ marker' = TRUE
    /\ SetThread(t, [threads[t] EXCEPT !.pc = "patch_240"])
    /\ UNCHANGED <<getitem, wrapped>>
    /\ UNCHANGED <<readvars, cmgrs, patch_trace>>

\* Line 240.
ThreadPatchWrapper(t) ==
    /\ threads[t].pc = "patch_240"
    /\ wrapped' = update_wrapper(wrapped, B2Dataset___getitem__, getitem)
    /\ SetThread(t, [threads[t] EXCEPT !.pc = "patch_241"])
    /\ UNCHANGED <<getitem, marker>>
    /\ UNCHANGED <<readvars, cmgrs, patch_trace>>

\* Line 241.
ThreadPatchInstall(t) ==
    /\ threads[t].pc = "patch_241"
    /\ getitem' = B2Dataset___getitem__
    /\ ThreadReturn(t, "")
    /\ UNCHANGED <<wrapped, marker>>
    /\ UNCHANGED <<readvars, cmgrs, patch_trace>>

\* The body of the with statement ends: lines 278-279, or the finally of
\* lines 284-285 up to the call of unpatch_dataset_class.
ThreadExit(t) ==
    /\ threads[t].pc = "body"
    /\ IF threads[t].already_patched THEN SetThread(t, ThreadOut)
       ELSE SetThread(t, [threads[t] EXCEPT !.pc = "unpatch_254"])
    /\ UNCHANGED <<getitem, wrapped, marker>>
    /\ UNCHANGED <<readvars, cmgrs, patch_trace>>

\* unpatch_dataset_class() is called outside a with statement.
ThreadUnpatch(t) ==
    /\ threads[t].pc = "out"
    /\ SetThread(t, [ThreadOut EXCEPT !.pc = "unpatch_254"])
    /\ UNCHANGED <<getitem, wrapped, marker>>
    /\ UNCHANGED <<readvars, cmgrs, patch_trace>>

\* Lines 254-255.
ThreadUnpatchCheck(t) ==
    /\ threads[t].pc = "unpatch_254"
    /\ IF ~marker THEN ThreadReturn(t, "")
       ELSE SetThread(t, [threads[t] EXCEPT !.pc = "unpatch_257"])
    /\ UNCHANGED <<getitem, wrapped, marker>>
    /\ UNCHANGED <<readvars, cmgrs, patch_trace>>

\* Lines 257-261.
ThreadUnpatchForeign(t) ==
    /\ threads[t].pc = "unpatch_257"
    /\ IF getitem # B2Dataset___getitem__ THEN ThreadReturn(t, "ValueError")
       ELSE SetThread(t, [threads[t] EXCEPT !.pc = "unpatch_262"])
    /\ UNCHANGED <<getitem, wrapped, marker>>
    /\ UNCHANGED <<readvars, cmgrs, patch_trace>>

\* Line 262: the function installed now is asked for its __wrapped__.
ThreadUnpatchRestore(t) ==
    /\ threads[t].pc = "unpatch_262"
    /\ IF wrapped[getitem] = NoFunction
       THEN ThreadReturn(t, "AttributeError") /\ UNCHANGED getitem
       ELSE /\ getitem' = wrapped[getitem]
            /\ SetThread(t, [threads[t] EXCEPT !.pc = "unpatch_263"])
    /\ UNCHANGED <<wrapped, marker>>
    /\ UNCHANGED <<readvars, cmgrs, patch_trace>>

\* Line 263: del of an attribute that is gone raises.
ThreadUnpatchMarker(t) ==
    /\ threads[t].pc = "unpatch_263"
    /\ marker' = FALSE
    /\ ThreadReturn(t, IF marker THEN "" ELSE "AttributeError")
    /\ UNCHANGED <<getitem, wrapped>>
    /\ UNCHANGED <<readvars, cmgrs, patch_trace>>

\* A step of patch_dataset_class in thread t.
ThreadPatchStep(t) ==
    \/ ThreadPatchCheck(t)
    \/ ThreadPatchMarker(t)
    \/ ThreadPatchWrapper(t)
    \/ ThreadPatchInstall(t)

\* A step of unpatch_dataset_class in thread t.
ThreadUnpatchStep(t) ==
    \/ ThreadUnpatchCheck(t)
    \/ ThreadUnpatchForeign(t)
    \/ ThreadUnpatchRestore(t)
    \/ ThreadUnpatchMarker(t)

\* Threads that only run with patching_dataset_class(): blocks, on a class
\* that nothing patched before.
ContextInit == PatchInit

ContextNext ==
    \E t \in Threads :
        \/ ThreadEnter(t)
        \/ ThreadPatchStep(t)
        \/ ThreadExit(t)
        \/ ThreadUnpatchStep(t)

ContextSpec == ContextInit /\ [][ContextNext]_vars

\* Reads of one dataset through the patched __getitem__ in one thread
\* while another thread calls unpatch_dataset_class and
\* patch_dataset_class.
Patcher == 1

RaceInit ==
    /\ dataset = CHOOSE ds \in Datasets : ds.shape = PlainShape /\ ds.chunked
                                          /\ ds.filters = {Blosc2FilterId}
                                          /\ ds.isnative /\ ds.mode = "r"
    /\ host = [system |-> "Linux", chunk_iter_fixed |-> TRUE]
    /\ environ = [present |-> FALSE, value |-> <<>>]
    /\ Idle
    /\ ClassPatched

RaceNext ==
    \/ /\ pc = "idle"
       /\ \E raw \in RawArgs(FewRequests(dataset)), nd \in NewDTypes :
            Getitem(raw, nd)
    \/ ReadStep
    \/ ThreadUnpatch(Patcher)
    \/ ThreadUnpatchStep(Patcher)
    \/ ThreadPatch(Patcher)
    \/ ThreadPatchStep(Patcher)

RaceSpec == RaceInit /\ [][RaceNext]_vars

-----------------------------------------------------------------------------
(* The properties of the optimized read.                                   *)

\* The read went through opt_selection_read with a selection of unit
\* steps, and neither the storage nor HDF5 failed it.
IntactOptRead ==
    /\ pc = "return"
    /\ trace.allocs = 1
    /\ \A i \in 1..Len(selection.step) : selection.step[i] = ToLimbs(1)
    /\ ~trace.damaged
    /\ raised # "OSError"

\* The selection has an axis of no elements.
NoElements ==
    /\ selection.kind = "SimpleSelection"
    /\ \E i \in 1..Len(selection.mshape) : selection.mshape[i] = 0

\* C1: a unit-step read that takes the optimized path over intact storage
\* returns, and what it returns holds at every position the element the
\* generic HDF5 read returns there, in the same dimensions when the result
\* has any, whichever chunks the selection crosses and wherever its bounds
\* were clipped.
C1_OptReadEqualsReference ==
    IntactOptRead =>
        LET ref == ReferenceRead(dataset, args, new_dtype)
        IN  /\ result.via = "opt"
            /\ result.kind \in {"array", "scalar"}
            /\ result.flat = ref.flat
            /\ result.dtype = ref.dtype
            /\ (ref.kind = "array" => result.shape = ref.shape)

\* A read of two dimensions that took its elements from four chunks, the
\* last ones partial, with a bound beyond the extent of its axis.
C1_Witness ==
    /\ IntactOptRead
    /\ result.via = "opt"
    /\ trace.reads = 4
    /\ Len(result.flat) > 4
    /\ \E i \in 1..Len(args) :
          /\ args[i].kind = "slice"
          /\ args[i].hi # <<>>
          /\ args[i].hi[1] > dataset.shape[i]

\* C2: when the optimized read of a non-empty selection returns, every
\* element of the buffer allocated uninitialized was written exactly once.
C2_EveryElementWrittenOnce ==
    (/\ pc = "return"
     /\ result.via = "opt"
     /\ result.kind # "error"
     /\ trace.allocs = 1
     /\ ~NoElements)
        => /\ DOMAIN writes = Box(slice_shape(selection))
           /\ \A p \in DOMAIN writes : writes[p] = 1
           /\ (~trace.damaged => \A p \in DOMAIN slice_arr : slice_arr[p] # Uninit)

\* A buffer of more than one element filled from more than one chunk.
C2_Witness ==
    /\ pc = "return"
    /\ result.via = "opt"
    /\ result.kind = "array"
    /\ trace.reads >= 2
    /\ Cardinality(DOMAIN writes) >= 3
    /\ \A p \in DOMAIN writes : writes[p] = 1

\* C3: a unit-step selection with an axis of no elements never has the
\* chunks enumerated, looked up or read, and the optimized read returns an
\* array of no elements in the dimensions of the selection, those of the
\* generic read.
C3_EmptySliceTouchesNoStorage ==
    (/\ NoElements
     /\ \A i \in 1..Len(selection.step) : selection.step[i] = ToLimbs(1))
        => /\ trace.enums = 0 /\ trace.lookups = 0 /\ trace.reads = 0
           /\ pc \in {"selection_ok", "allocate", "return"}
           /\ (pc = "return" =>
                 /\ result.via = "opt"
                 /\ result.kind = "array"
                 /\ result.flat = <<>>
                 /\ result.shape = array_shape(selection)
                 /\ result.shape =
                        ReferenceRead(dataset, args, new_dtype).shape)

\* An empty read of a dataset of several dimensions was returned, one of
\* its axes selected by an integer.
C3_Witness ==
    /\ pc = "return"
    /\ NoElements
    /\ trace.allocs = 1
    /\ result.kind = "array"
    /\ Len(result.shape) >= 1
    /\ Len(result.shape) < Len(dataset.shape)

\* C4: the optimized read returns a bare scalar when every axis is
\* indexed by an integer, and else an array in exactly the dimensions of
\* the selection, the axes indexed by an integer dropped.
C4_ResultInOutputShape ==
    (/\ pc = "return"
     /\ result.via = "opt"
     /\ result.kind # "error"
     /\ trace.allocs = 1)
        => IF \A i \in 1..Len(selection.scalar) : selection.scalar[i]
           THEN result.kind = "scalar" /\ result.shape = <<>>
           ELSE /\ result.kind = "array"
                /\ result.shape = DropScalar(selection.mshape, selection.scalar)

\* C5: a selection with a step other than 1 on some axis never enters the
\* optimized read: the check of the selection raises NoOptSlicingError and
\* the read returns what the generic read returns.
C5_NonUnitStepFallsBack ==
    (/\ selection.kind = "SimpleSelection"
     /\ \E i \in 1..Len(selection.step) : selection.step[i] # ToLimbs(1))
        => /\ pc \in {"selection_ok", "fallback", "return"}
           /\ trace.allocs = 0
           /\ (pc # "selection_ok" => raised = "NoOptSlicingError")
           /\ (pc = "return" =>
                 result = ReferenceRead(dataset, args, new_dtype))

\* C6: once a check of opt_slice_read has failed, no buffer is allocated
\* and no chunk is enumerated, looked up or read, and the wrapped
\* __getitem__ is called exactly once, with the args and the new_dtype of
\* the read.
C6_FailedCheckOnlyDelegates ==
    (raised = "NoOptSlicingError")
        => /\ pc \in {"fallback", "return"}
           /\ trace.allocs = 0 /\ trace.enums = 0
           /\ trace.lookups = 0 /\ trace.reads = 0
           /\ slice_arr = <<>>
           /\ trace.fallbacks = (IF pc = "return" THEN 1 ELSE 0)
           /\ (pc = "return" =>
                 /\ trace.fb_args = args
                 /\ trace.fb_dtype = new_dtype
                 /\ result = ReferenceRead(dataset, args, new_dtype))

\* A read with a new dtype was delegated after the check of the selection
\* failed, the dataset and the environment allowing the optimized read.
C6_Witness ==
    /\ pc = "return"
    /\ raised = "NoOptSlicingError"
    /\ selection.kind \in {"SimpleSelection", "FancySelection"}
    /\ new_dtype # ""
    /\ trace.fallbacks = 1
    /\ result.kind = "array"

\* C7: the wrapped __getitem__ is called only after NoOptSlicingError; any
\* other exception of the optimized read reaches the caller, and the
\* wrapped __getitem__ is not called in that read.
C7_OnlyIneligibilityFallsBack ==
    /\ (pc = "fallback" \/ trace.fallbacks > 0 \/ result.via = "generic")
          => raised = "NoOptSlicingError"
    /\ (raised \notin {"", "NoOptSlicingError"})
          => /\ pc = "return"
             /\ trace.fallbacks = 0
             /\ result.kind = "error"
             /\ result.exc = raised
             /\ result.via = "opt"

\* The integrity error of a chunk read reached the caller after an
\* earlier chunk of the same read had been placed.
C7_Witness ==
    /\ pc = "return"
    /\ raised = "RuntimeError"
    /\ result.exc = "RuntimeError"
    /\ trace.reads >= 2
    /\ trace.fallbacks = 0

\* The sub-array read has the dtype of the dataset, the rank of the
\* selection, and on no axis more than was asked of the chunk.
Conforms(arr, asked) ==
    /\ arr.dtype = DatasetDType
    /\ Len(arr.shape) = Len(asked)
    /\ \A i \in 1..Len(asked) : arr.shape[i] <= asked[i]

\* C8: a sub-array that does not conform is never placed in the buffer:
\* the read ends with the integrity error.
C8_NonConformingSubArrayRejected ==
    LET asked == SliceShape(slice_as_chunk_slice(chunk_slice, dataset.chunks))
    IN  /\ (pc = "place" => Conforms(chunk_slice_arr, asked))
        /\ (/\ pc = "return"
            /\ chunk_slice # <<>>
            /\ chunk_slice_arr # NoArray
            /\ chunk_slice_arr.exc = ""
            /\ ~Conforms(chunk_slice_arr, asked))
              => raised = "RuntimeError"

\* BLOSC2_FILTER holds a non-zero integer.
ForceFilter ==
    /\ environ.present
    /\ environ.value \in {<<"1">>, <<"-", "2">>}

\* C9: whenever a read gets past the dataset property, memoised or not, it
\* reads the environment: with BLOSC2_FILTER a non-zero integer it raises
\* NoOptSlicingError before anything is allocated, else it goes on to the
\* selection, whatever the reads before it met.
C9_EnvironmentReadEveryCall ==
    [][(pc = "enabled" /\ pc' # "enabled")
          => IF ForceFilter
             THEN /\ pc' = "fallback"
                  /\ raised' = "NoOptSlicingError"
                  /\ trace'.allocs = 0
             ELSE pc' = "select" /\ raised' = ""]_vars

\* A read that found the property memoised by an earlier read went the
\* generic way because of the environment.
C9_Witness ==
    /\ pc = "return"
    /\ trace.memo
    /\ ok_cache = <<TRUE>>
    /\ trace.enabled = <<FALSE>>
    /\ ForceFilter
    /\ result.via = "generic"
    /\ result.kind = "array"

\* The conditions under which a dataset is fit for the optimized read.
Eligible ==
    /\ dataset.extent_type = "SIMPLE"
    /\ dataset.chunked
    /\ "32026" \in dataset.filters
    /\ dataset.isnative
    /\ (dataset.mode = "r" \/ host.system # "Windows")

-----------------------------------------------------------------------------
(* The properties of the patching.                                         *)

\* C11: patch_dataset_class on a patched class and unpatch_dataset_class
\* on an unpatched one change neither h5py.Dataset.__getitem__ nor any
\* __wrapped__ nor the patch state, and raise nothing.
C11_PatchingIdempotent ==
    [][/\ (patch_trace'.op = "patch" /\ marker)
            => /\ getitem' = getitem /\ wrapped' = wrapped /\ marker'
               /\ patch_trace'.exc = ""
       /\ (patch_trace'.op = "unpatch" /\ ~marker)
            => /\ getitem' = getitem /\ wrapped' = wrapped /\ ~marker'
               /\ patch_trace'.exc = ""]_vars

\* The class was patched again while a function of other code was
\* installed over the wrapper.
C11_Witness ==
    /\ patch_trace.op = "patch"
    /\ patch_trace.was
    /\ marker
    /\ getitem \in ForeignGetitems
    /\ wrapped[getitem] = B2Dataset___getitem__

\* C12: patching an unpatched class over any installed function F leaves
\* the wrapper installed with F as its __wrapped__ and the class patched;
\* unpatching with the wrapper installed installs the F of the last
\* patching again and leaves the class unpatched.
C12_PatchUnpatchRoundTrip ==
    [][/\ (patch_trace'.op = "patch" /\ ~marker)
            => /\ marker'
               /\ getitem' = B2Dataset___getitem__
               /\ wrapped'[B2Dataset___getitem__] = getitem
               /\ patch_trace'.exc = ""
       /\ (patch_trace'.op = "unpatch" /\ marker
                /\ getitem = B2Dataset___getitem__)
            => /\ ~marker'
               /\ getitem' = patch_trace.over
               /\ patch_trace'.exc = ""]_vars

\* The class was unpatched back to the second function of other code,
\* itself made over another function than the __getitem__ of h5py.
C12_Witness ==
    /\ patch_trace.op = "unpatch"
    /\ patch_trace.was
    /\ ~marker
    /\ getitem \in ForeignGetitems
    /\ getitem = patch_trace.over
    /\ wrapped[B2Dataset___getitem__] = getitem
    /\ wrapped[getitem] # Dataset___getitem__

\* C13: unpatch_dataset_class on a patched class whose __getitem__ is not
\* the wrapper raises ValueError and changes nothing.
C13_UnpatchForeignRaises ==
    [][(patch_trace'.op = "unpatch" /\ marker
            /\ getitem # B2Dataset___getitem__)
         => /\ patch_trace'.exc = "ValueError"
            /\ getitem' = getitem
            /\ wrapped' = wrapped
            /\ marker']_vars

\* unpatch_dataset_class raised ValueError with a function of other code
\* installed over the wrapper.
C13_Witness ==
    /\ patch_trace.op = "unpatch"
    /\ patch_trace.exc = "ValueError"
    /\ marker
    /\ getitem \in ForeignGetitems

\* No call but those of the contexts themselves changed the class since
\* context i was entered.
Undisturbed(i) == ~cmgrs[i].disturbed

\* C14: while a context of patching_dataset_class is entered the class is
\* patched; a context nested in another found it patched, so that only
\* the outermost unpatches; when the body
\* ends, with or without an exception, the class is unpatched and its
\* __getitem__ restored if the context found it unpatched, and left as it
\* is otherwise, and the with statement leaves with the exception of the
\* body or with none.
C14_ContextRestoresPatchState ==
    /\ [](\A i \in 1..Len(cmgrs) :
            Undisturbed(i) =>
                /\ marker
                /\ (i > 1 /\ Undisturbed(i - 1) => cmgrs[i].already_patched))
    /\ [][\A exc \in BodyExceptions :
            (ExitPatching(exc) /\ Undisturbed(Len(cmgrs)))
              => /\ patch_trace'.exc = exc
                 /\ IF cmgrs[Len(cmgrs)].already_patched
                    THEN marker' /\ getitem' = getitem
                    ELSE /\ ~marker'
                         /\ getitem' = cmgrs[Len(cmgrs)].entered_over]_vars

\* A nested context was left with an exception and the outer one is
\* still entered, the class patched.
C14_Witness ==
    /\ patch_trace.op = "exit"
    /\ patch_trace.exc = "CMTestError"
    /\ Len(cmgrs) = 1
    /\ Undisturbed(1)
    /\ ~cmgrs[1].already_patched
    /\ marker

\* B2Dataset___getitem__ is f or is reached from f along at most n
\* __wrapped__ attributes.
RECURSIVE WrapperReachable(_, _)
WrapperReachable(f, n) ==
    \/ f = B2Dataset___getitem__
    \/ /\ n > 0
       /\ f # NoFunction
       /\ WrapperReachable(wrapped[f], n - 1)

\* C20: the class is reported patched exactly when B2Dataset___getitem__
\* is reached from h5py.Dataset.__getitem__ along the __wrapped__
\* attributes.
C20_MarkerAgreesWithWrapper ==
    marker <=> WrapperReachable(getitem, Cardinality(Functions))

\* The class is patched with two functions of other code installed over
\* the wrapper, in a context that found it unpatched.
C20_Witness ==
    /\ marker
    /\ getitem \in ForeignGetitems
    /\ wrapped[getitem] \in ForeignGetitems
    /\ wrapped[wrapped[getitem]] = B2Dataset___getitem__
    /\ cmgrs # <<>>
    /\ ~cmgrs[1].already_patched

-----------------------------------------------------------------------------
(* More properties of the optimized read.                                  *)

\* C15: an opaque chunk payload whose byte count is not that of the
\* elements asked for, in the dataset's element type, fails the read in
\* _read_chunk_slice; no array is made of it.
C15_MisSizedOpaquePayloadFails ==
    (/\ trace.payload.kind = "V"
     /\ trace.payload.nbytes # trace.payload.count * ItemSize(DatasetDType))
        => /\ pc = "return"
           /\ raised = "TypeError"
           /\ result.kind = "error"

\* Which of the six conditions fails first for a dataset on a host, with
\* what opt_slicing_enabled() and opt_slicing_selection_ok give; "" if
\* none does.
FailedCondition(ds, h, enabled, selection_ok) ==
    IF ds.extent_type # "SIMPLE" \/ ~ds.chunked
    THEN "unsupported-dataset-layout"
    ELSE IF "32026" \notin ds.filters THEN "unsupported-codec"
    ELSE IF ~ds.isnative THEN "foreign-byte-order"
    ELSE IF ds.mode # "r" /\ h.system = "Windows"
    THEN "platform-lock-conflict"
    ELSE IF ~enabled THEN "disabled-by-config"
    ELSE IF ~selection_ok THEN "non-unit-step-selection"
    ELSE ""

\* What the checks gave in the read in flight; a check not reached passes.
EnabledSeen == trace.enabled # <<FALSE>>
SelectionSeen ==
    selection.kind \notin {"SimpleSelection", "FancySelection"}
    \/ opt_slicing_selection_ok(selection)

\* C16 as stated: the message of NoOptSlicingError tells which of the six
\* conditions failed: no dataset, host, environment and selection for
\* which another condition fails gets the same message.
C16_ReasonTellsCondition ==
    (raised = "NoOptSlicingError")
        => \A w \in Worlds, en \in BOOLEAN, sok \in BOOLEAN :
              no_opt_reason(w[1], w[2], en, sok) = trace.reason
                => FailedCondition(w[1], w[2], en, sok)
                     = FailedCondition(dataset, host, EnabledSeen,
                                       SelectionSeen)

\* C16 amended: the message of NoOptSlicingError tells which of the three
\* checks failed, the dataset's, the environment's or the selection's,
\* each with a message of its own; the conditions on the dataset share
\* one message.
C16_ReasonTellsCheck ==
    (raised = "NoOptSlicingError")
        => trace.reason =
             (IF FailedCondition(dataset, host, TRUE, TRUE) # ""
              THEN "Dataset is not suitable for Blosc2 optimized slicing"
              ELSE IF ~EnabledSeen
              THEN "Blosc2 optimized slicing is unavailable or disabled"
              ELSE "Selection is not suitable for Blosc2 optimized slicing")

\* A read of a suitable dataset, the environment allowing it, was
\* delegated with the message of the selection check.
C16_Witness ==
    /\ pc = "return"
    /\ raised = "NoOptSlicingError"
    /\ trace.enabled = <<TRUE>>
    /\ ~SelectionSeen
    /\ trace.reason = "Selection is not suitable for Blosc2 optimized slicing"

\* C17 as stated: every coordinate passed to the chunk lookup is on every
\* axis a multiple of the chunk shape.
C17_LookupAtChunkMultiple ==
    \A i \in 1..Len(trace.coord) : trace.coord[i] % dataset.chunks[i] = 0

\* C17 amended: the coordinate passed to the chunk lookup is on every axis
\* the first selected index inside the chunk being read: the start of the
\* selection where the selection starts inside that chunk, else the start
\* of the chunk; the chunk it lies in is the one that holds every element
\* then read and placed.
C17_LookupAtIntersectionStart ==
    (pc \in {"read_chunk", "validate", "place"})
        => \A i \in 1..Len(dataset.shape) :
              LET c == trace.coord[i]
                  origin == (c \div dataset.chunks[i]) * dataset.chunks[i]
              IN  /\ c = Max2(selection.start[i], origin)
                  /\ origin <= chunk_slice[i].start
                  /\ chunk_slice[i].start < chunk_slice[i].stop
                  /\ chunk_slice[i].stop <= origin + dataset.chunks[i]
                  /\ c = chunk_slice[i].start

\* A chunk was looked up at a coordinate that is no multiple of the chunk
\* shape on one axis and is one on another, and its elements were placed.
C17_Witness ==
    /\ pc = "next_chunk"
    /\ trace.reads >= 1
    /\ Len(trace.coord) >= 2
    /\ \E i \in 1..Len(trace.coord) :
          /\ trace.coord[i] % dataset.chunks[i] # 0
          /\ trace.coord[i] = selection.start[i]
    /\ \E i \in 1..Len(trace.coord) :
          /\ trace.coord[i] % dataset.chunks[i] = 0
          /\ trace.coord[i] > selection.start[i]
    /\ \E p \in DOMAIN writes : writes[p] = 1

\* C18: for every chunk processed and every axis, the slice taken of the
\* chunk is the intersection of selection and chunk moved by the start of
\* the chunk and lies in the chunk, the slice of the buffer it goes to is
\* the same intersection moved by the start of the selection and lies in
\* the buffer, and both have the same extent.
C18_SlicesAreShiftedIntersection ==
    (pc \in {"chunk_info", "read_chunk", "validate", "place"})
        => LET intra == slice_as_chunk_slice(chunk_slice, dataset.chunks)
               out == chunk_as_slice_slice(chunk_slice, slice_start(selection))
           IN  \A i \in 1..Len(dataset.shape) :
                 LET ext == dataset.chunks[i]
                     origin == (chunk_slice[i].start \div ext) * ext
                     lo == Max2(selection.start[i], origin)
                     hi == Min2(selection.start[i] + selection.mshape[i],
                                origin + ext)
                 IN  /\ lo < hi
                     /\ intra[i] = Slice(lo - origin, hi - origin)
                     /\ 0 <= intra[i].start /\ intra[i].stop <= ext
                     /\ out[i] = Slice(lo - selection.start[i],
                                       hi - selection.start[i])
                     /\ 0 <= out[i].start
                     /\ out[i].stop <= selection.mshape[i]
                     /\ intra[i].stop - intra[i].start
                          = out[i].stop - out[i].start

\* A chunk is processed that the selection enters in its middle on one
\* axis and leaves before its end on another, after an earlier chunk.
C18_Witness ==
    /\ pc = "place"
    /\ trace.reads >= 2
    /\ \E i \in 1..Len(chunk_slice) :
          chunk_slice[i].start % dataset.chunks[i] # 0
    /\ \E i \in 1..Len(chunk_slice) :
          /\ chunk_slice[i].stop % dataset.chunks[i] # 0
          /\ chunk_slice[i].stop < dataset.shape[i]

\* C19 as stated: no sub-array is placed in the buffer before the reads
\* are done: once one is placed, no chunk is looked up or read.
C19_ReadsBeforePlacements ==
    (pc \in {"chunk_info", "read_chunk", "validate"}) => trace.places = 0

\* The steps one read may take from each position.
PhaseEdges ==
    {<<"idle", "dataset_ok">>, <<"dataset_ok", "enabled">>,
     <<"enabled", "select">>, <<"select", "selection_ok">>,
     <<"selection_ok", "allocate">>, <<"allocate", "next_chunk">>,
     <<"allocate", "return">>, <<"next_chunk", "next_chunk">>,
     <<"next_chunk", "chunk_info">>, <<"chunk_info", "read_chunk">>,
     <<"read_chunk", "validate">>, <<"validate", "place">>,
     <<"place", "next_chunk">>, <<"next_chunk", "adjust">>,
     <<"adjust", "return">>, <<"fallback", "return">>, <<"return", "idle">>}
    \cup {<<p, "fallback">> : p \in {"dataset_ok", "enabled", "selection_ok"}}
    \cup {<<p, "return">> : p \in {"select", "chunk_info", "read_chunk",
                                   "validate", "place"}}

\* C19 amended: a read goes through the checks, the allocation, then for
\* each chunk in turn its lookup, read, check and placement, then the
\* reshaping and the return.  No buffer is allocated before every check
\* has passed, no chunk is looked up or read before the buffer is
\* allocated, each sub-array is placed before the next chunk is taken, and
\* the result is made only when every sub-array read has been placed.
C19_PhasesInOrder ==
    /\ [](/\ (trace.allocs > 0 =>
                /\ ok_cache = <<TRUE>>
                /\ trace.enabled = <<TRUE>>
                /\ selection.kind = "SimpleSelection"
                /\ trace.reason = "")
          /\ (trace.enums > 0 \/ trace.lookups > 0 \/ trace.reads > 0
                => trace.allocs = 1)
          /\ (pc \in {"next_chunk", "chunk_info", "adjust"}
                => trace.lookups = trace.places /\ trace.reads = trace.places)
          /\ (pc = "read_chunk"
                => trace.lookups = trace.places + 1
                   /\ trace.reads = trace.places)
          /\ (pc \in {"validate", "place"}
                => trace.lookups = trace.places + 1
                   /\ trace.reads = trace.places + 1)
          /\ (result.via = "opt" /\ result.kind # "error"
                => /\ pc = "return"
                   /\ trace.reads = trace.places
                   /\ trace.lookups = trace.places
                   /\ (~NoElements => trace.places >= 1)))
    /\ [][pc' # pc => <<pc, pc'>> \in PhaseEdges]_vars

\* The second chunk of a read is being read after the sub-array of the
\* first was placed.
C19_Witness ==
    /\ pc = "read_chunk"
    /\ trace.places = 1
    /\ trace.reads = 1
    /\ trace.lookups = 2
    /\ \E p \in DOMAIN writes : writes[p] = 1
    /\ \E p \in DOMAIN writes : writes[p] = 0

-----------------------------------------------------------------------------
(* The properties of patching and reading in several threads.              *)

\* Thread t is in the body of its with patching_dataset_class(): block.
InBody(t) == threads[t].in_cm /\ threads[t].pc = "body"

\* Thread t is in a with block, from its first statement to the end of
\* the call that leaves it.
InBlock(t) == threads[t].in_cm /\ threads[t].pc # "out"

\* C21: threads that only run with patching_dataset_class(): blocks.  The
\* class is patched whenever some thread is in the body of its block, and
\* it is unpatched when every block has been left.
C21_PatchedWhileAnyBlockRuns ==
    /\ ((\E t \in Threads : InBody(t)) => marker)
    /\ ((\A t \in Threads : ~InBlock(t)) => ~marker)

\* C22: a read that entered B2Dataset___getitem__ never ends with the
\* error of looking up the property unpatch_dataset_class removed from the
\* class.
C22_ReadSurvivesUnpatch ==
    ~(/\ pc = "return"
      /\ result.kind = "error"
      /\ result.exc = "AttributeError")

====
